---- MODULE Spec2Model ----
(***************************************************************************)
(* A state-machine model of the Mem0 MCP server (src/src/index.ts): the    *)
(* output guard (SafeLogger), the start-up mode selection, the tool        *)
(* dispatcher with its three handlers, the detached background write, the  *)
(* two-tier delete and the process-level shutdown handlers.                *)
(*                                                                         *)
(* The memory backends (mem0ai, mem0ai/oss), the MCP SDK and fetch are     *)
(* outside the repository: each call to them is a step whose outcome       *)
(* (return or throw, and with which value) is chosen nondeterministically. *)
(***************************************************************************)
EXTENDS Integers, Sequences, FiniteSets, TLC

\* ------------------------------------------------------------------ bounds
\* Tool calls whose awaited backend call has not returned yet.
MaxInflight == 1
\* Detached add() calls that have not settled yet.
MaxPendingWrites == 1
\* Calls whose handler has finished and whose answer is still to be given,
\* besides the one finished most recently.
MaxUnanswered == 1

\* ------------------------------------------------------- JavaScript values
Undefined == "<undefined>"
Null == "<null>"

\* JavaScript truthiness of a string-or-absent value: !!v.
Truthy(v) == v \notin {Undefined, Null, ""}

\* `${v}` in a template literal.
Template(v) == IF v = Undefined THEN "undefined" ELSE IF v = Null THEN "null" ELSE v

\* a || b
OrElse(a, b) == IF Truthy(a) THEN a ELSE b

\* Numbers are kept in tenths (0.3 is 3) and tagged, so that an absent
\* threshold, a null one and the number 0 are three different values.
UndefinedT == [t |-> "undefined", v |-> 0]
NullT == [t |-> "null", v |-> 0]
Num(n) == [t |-> "number", v |-> n]

\* options.threshold = 0.3, in tenths.
DefaultThresholdTenths == 3

\* ------------------------------------------------------------ output guard
\* The stream a console call writes to. SafeLogger replaces console.log only:
\* console.error writes to stderr, console.info keeps writing to stdout, and
\* console.log goes to stderr exactly when the guard is installed and the
\* call stack contains 'mem0ai' or 'mem0-mcp' (stackHit).
ConsoleChannel(method, stackHit, cl) ==
    IF method = "error" THEN "stderr"
    ELSE IF method = "log" /\ cl = "guarded" /\ stackHit THEN "stderr"
    ELSE "stdout"

\* The console methods among ms, called by the program's own code, whose text
\* reaches stdout while the guard is installed.
Leaked(ms, cl) ==
    {m \in ms : cl = "guarded" /\ ConsoleChannel(m, TRUE, cl) = "stdout"}

\* SafeLogger.restore()
Restore(cl) == "original"

\* ------------------------------------------------------------ environment
\* process.env as the constructor reads it: each key unset, empty or set, and
\* the vector-store settings of the local path.
Env(mem0, openai, provider, url) ==
    [MEM0_API_KEY |-> mem0, OPENAI_API_KEY |-> openai,
     VECTOR_DB_PROVIDER |-> provider, VECTOR_DB_URL |-> url]

\* if (mem0ApiKey) ... else if (openaiApiKey) ... else ...
SelectModeLocalFirst(mem0ApiKey, openaiApiKey) ==
    IF Truthy(openaiApiKey) THEN "local"
    ELSE IF Truthy(mem0ApiKey) THEN "cloud"
    ELSE "none"

SelectMode(mem0ApiKey, openaiApiKey) ==
    IF Truthy(mem0ApiKey) THEN "cloud"
    ELSE IF Truthy(openaiApiKey) THEN "local"
    ELSE "none"

Environments ==
    {Env("key", "key", Undefined, Undefined),
     Env("key", Undefined, Undefined, Undefined),
     Env(Undefined, "key", Undefined, Undefined),
     Env("", "key", "qdrant", "http://qdrant:6333"),
     Env(Undefined, "key", "qdrant", Undefined),
     Env(Undefined, Undefined, Undefined, Undefined),
     Env("", "", Undefined, Undefined)}

\* The Memory object new Memory(...) returns: with or without the internal
\* _vectorstore.delete function the delete fallback looks for.
LocalClients == {"Memory", "Memory{_vectorstore.delete}"}
HasVectorstoreDelete(lc) == lc = "Memory{_vectorstore.delete}"

\* ------------------------------------------------------- errors, responses
McpError(code, message) == [mcp |-> TRUE, code |-> code, message |-> message]
JsError(message) == [mcp |-> FALSE, code |-> "Error", message |-> message]
NoError == [mcp |-> FALSE, code |-> Undefined, message |-> Undefined]

\* A thrown value that is not an Error: an object or string, whose .message
\* reads undefined, and null, of which no property can be read.
ThrownObject == [mcp |-> FALSE, code |-> "Object", message |-> Undefined]
ThrownNull == [mcp |-> FALSE, code |-> "null", message |-> Undefined]

\* What a backend call can throw or reject with: new Error(text), new Error()
\* (whose message is the empty string), a value that is not an Error, null.
BackendErrors == {JsError("backend failure"), JsError(""), ThrownObject, ThrownNull}

\* error.message in a catch block: the message, or the TypeError that reading
\* a property of null throws.
TypeErrorMessage == "Cannot read properties of null (reading 'message')"
ReadMessage(e, wrap) == IF e = ThrownNull THEN JsError(TypeErrorMessage) ELSE wrap

\* What a backend search can return, and JSON.stringify of it.
SearchResults == {"none", "one"}
\* JSON.stringify(results, null, 2): an empty array prints as [], any other
\* value over several lines with an indent of two spaces.
JSONStringify(r) == IF r = "none" THEN "[]" ELSE "[\n  {\n    \"id\": \"m1\"\n  }\n]"

Success(text) == [ok |-> TRUE, code |-> Undefined, text |-> text]
Failure(e) == [ok |-> FALSE, code |-> e.code, text |-> e.message]
NoResponse == [ok |-> FALSE, code |-> Undefined, text |-> Undefined]

NotReadyMessage == "Memory client is still initializing. Please try again in a moment."
NoClientMessage == "No memory client is available"
QueuedMessage == "Memory addition queued successfully"
UnsupportedMessage == "Local client does not support memory deletion"

\* ------------------------------------------------------------- tool calls
\* A tools/call request: the tool name, the first required argument (content,
\* query or memoryId), userId and, for a search, the threshold.
ToolNames == {"add_memory", "search_memory", "delete_memory", "list_memories"}
ArgValues == {Undefined, "", "m1"}
UserValues == {Undefined, "", "u1"}
Thresholds == {UndefinedT, NullT, Num(0), Num(5)}

\* The requests tried: both required arguments given, one of them missing or
\* empty, or no arguments at all; a threshold only on a search that has both.
Requests ==
    {r \in [name : ToolNames, a1 : ArgValues, userId : UserValues, threshold : Thresholds] :
        /\ Truthy(r.a1) \/ Truthy(r.userId) \/ (r.a1 = Undefined /\ r.userId = Undefined)
        /\ \/ r.threshold = UndefinedT
           \/ r.name = "search_memory" /\ Truthy(r.a1) /\ Truthy(r.userId)}

NoRequest == [name |-> Undefined, a1 |-> Undefined, userId |-> Undefined, threshold |-> UndefinedT]

\* The options object handed to the backend search.
NoOptions == [userKey |-> Undefined, user |-> Undefined, version |-> Undefined, threshold |-> UndefinedT]

\* if (threshold !== undefined && threshold !== null) options.threshold = threshold;
\* else options.threshold = 0.3;
ThresholdOptionTruthy(threshold) ==
    IF threshold.t = "number" /\ threshold.v # 0 THEN threshold ELSE Num(DefaultThresholdTenths)

ThresholdOption(threshold) ==
    IF threshold.t # "undefined" /\ threshold.t # "null" THEN threshold
    ELSE Num(DefaultThresholdTenths)

SearchOptions(branch, userId, threshold) ==
    IF branch = "cloud"
    THEN [userKey |-> "user_id", user |-> userId, version |-> "v2",
          threshold |-> ThresholdOption(threshold)]
    ELSE [userKey |-> "userId", user |-> userId, version |-> Undefined,
          threshold |-> ThresholdOption(threshold)]

\* The first statement of the call handler and the if/else chain on the name.
RouteIgnoringReady(ready, name) ==
    IF name = "add_memory" THEN "add"
    ELSE IF name = "search_memory" THEN "search"
    ELSE IF name = "delete_memory" THEN "delete"
    ELSE "unknown"

Route(ready, name) ==
    IF ~ready THEN "notReady"
    ELSE IF name = "add_memory" THEN "add"
    ELSE IF name = "search_memory" THEN "search"
    ELSE IF name = "delete_memory" THEN "delete"
    ELSE "unknown"

\* The name of the first required argument of each tool.
FirstArgument(name) ==
    IF name = "add_memory" THEN "content"
    ELSE IF name = "search_memory" THEN "query"
    ELSE "memoryId"

\* if (!first) throw ...; if (!userId) throw ...: the argument reported
\* missing, Undefined when both are there.
MissingArgumentStrict(name, req) ==
    IF req.a1 = Undefined THEN FirstArgument(name)
    ELSE IF req.userId = Undefined THEN "userId"
    ELSE Undefined

MissingArgument(name, req) ==
    IF ~Truthy(req.a1) THEN FirstArgument(name)
    ELSE IF ~Truthy(req.userId) THEN "userId"
    ELSE Undefined

\* if (this.isCloudMode && this.cloudClient) ... else if (this.localClient) ... else ...
ClientBranch(cloud, cc, lc) ==
    IF cloud /\ Truthy(cc) THEN "cloud"
    ELSE IF Truthy(lc) THEN "local"
    ELSE "none"

\* What a handler has done when it returns, throws or reaches its first
\* await: the error thrown (NoError if none), the response returned, the
\* awaited stage ("done" if none), the backend calls started, the search
\* options, whether a detached write was started, the console methods called.
Throws(e, logs) ==
    [thrown |-> e, resp |-> NoResponse, stage |-> "done", calls |-> <<>>,
     opts |-> NoOptions, write |-> FALSE, logs |-> logs]
Returns(resp, calls, write, logs) ==
    [thrown |-> NoError, resp |-> resp, stage |-> "done", calls |-> calls,
     opts |-> NoOptions, write |-> write, logs |-> logs]
Awaits(stage, calls, opts, logs) ==
    [thrown |-> NoError, resp |-> NoResponse, stage |-> stage, calls |-> calls,
     opts |-> opts, write |-> FALSE, logs |-> logs]

HandleAddMemory(req, cloud, cc, lc) ==
    LET missing == MissingArgument("add_memory", req)
        branch == ClientBranch(cloud, cc, lc)
    IN  IF missing # Undefined
        THEN Throws(McpError("InvalidParams", "Missing required argument: " \o missing), {})
        ELSE IF branch = "none"
        THEN Throws(McpError("InternalError", NoClientMessage), {"info"})
        ELSE Returns(Success(QueuedMessage), <<"add">>, TRUE, {"info"})

HandleSearchMemory(req, cloud, cc, lc) ==
    LET missing == MissingArgument("search_memory", req)
        branch == ClientBranch(cloud, cc, lc)
    IN  IF missing # Undefined
        THEN Throws(McpError("InvalidParams", "Missing required argument: " \o missing), {})
        ELSE IF branch = "none"
        THEN Throws(McpError("InternalError", NoClientMessage), {})
        ELSE Awaits("search", <<"search">>, SearchOptions(branch, req.userId, req.threshold), {})

HandleDeleteMemory(req, cloud, cc, lc) ==
    LET missing == MissingArgument("delete_memory", req)
        branch == ClientBranch(cloud, cc, lc)
    IN  IF missing # Undefined
        THEN Throws(McpError("InvalidParams", "Missing required argument: " \o missing), {})
        ELSE IF branch = "none"
        THEN Throws(McpError("InternalError", NoClientMessage), {"info"})
        ELSE Awaits("delPrimary", <<"deleteMemory">>, NoOptions, {"info"})

\* catch (error) { if (error instanceof McpError) throw error; ... throw new McpError(InternalError, ...) }
DispatcherCatchWrapAll(e) ==
    McpError("InternalError", "Error executing tool: " \o OrElse(e.message, "Unknown error"))

DispatcherCatch(e) ==
    IF e.mcp THEN e
    ELSE McpError("InternalError", "Error executing tool: " \o OrElse(e.message, "Unknown error"))

\* The dispatcher's try block around a handler's outcome.
Caught(r) ==
    IF r.thrown = NoError THEN r
    ELSE [r EXCEPT !.thrown = DispatcherCatch(r.thrown),
                   !.logs = IF r.thrown.mcp THEN r.logs ELSE r.logs \cup {"error"}]

\* The CallToolRequestSchema handler up to its first await.
CallToolHandler(ready, cloud, cc, lc, req) ==
    LET route == Route(ready, req.name)
    IN  IF route = "notReady" THEN Throws(McpError("InternalError", NotReadyMessage), {})
        ELSE IF route = "add" THEN Caught(HandleAddMemory(req, cloud, cc, lc))
        ELSE IF route = "search" THEN Caught(HandleSearchMemory(req, cloud, cc, lc))
        ELSE IF route = "delete" THEN Caught(HandleDeleteMemory(req, cloud, cc, lc))
        ELSE Caught(Throws(McpError("MethodNotFound", "Unknown tool: " \o Template(req.name)), {}))

\* The response the caller gets from a finished handler.
ResponseOf(r) == IF r.thrown = NoError THEN r.resp ELSE Failure(r.thrown)

\* Outcomes of an awaited backend call.
Ok(v) == [ok |-> TRUE, value |-> v, error |-> NoError]
Threw(e) == [ok |-> FALSE, value |-> Undefined, error |-> e]
SearchOutcomes == {Ok(v) : v \in SearchResults} \cup {Threw(e) : e \in BackendErrors}
DeleteOutcomes == {Ok(Undefined)} \cup {Threw(e) : e \in BackendErrors}
\* fetch resolves with a response of any HTTP status, or rejects.
FetchOutcomes == {Ok("200"), Ok("404")} \cup {Threw(e) : e \in BackendErrors}

\* handleSearchMemory with a catch that answers a failed search with an
\* empty result.
SearchReturnedSwallow(o) ==
    IF o.ok THEN Returns(Success(JSONStringify(o.value)), <<>>, FALSE, {"info"})
    ELSE Returns(Success(JSONStringify("none")), <<>>, FALSE, {"error"})

\* handleSearchMemory after the awaited search: both branches return the
\* stringified result or wrap the error.
SearchReturned(o) ==
    IF o.ok THEN Returns(Success(JSONStringify(o.value)), <<>>, FALSE, {"info"})
    ELSE Throws(ReadMessage(o.error,
                    McpError("InternalError",
                             "Error searching memories: " \o Template(o.error.message))),
                {"error"})

\* handleDeleteMemory after the awaited primary delete: done, or the fallback
\* to start, or (local client without _vectorstore.delete) nothing left to try.
AfterPrimaryDelete(branch, lc, o) ==
    IF o.ok THEN "success"
    ELSE IF branch = "cloud" THEN "fetch"
    ELSE IF HasVectorstoreDelete(lc) THEN "_vectorstore.delete"
    ELSE "unsupported"

DeletedMessage(memoryId) == "Memory " \o Template(memoryId) \o " deleted successfully"

\* The outer catch of handleDeleteMemory, per branch.
DeleteError(branch, e) ==
    ReadMessage(e,
        IF branch = "cloud"
        THEN McpError("InternalError", "Error deleting memory: " \o Template(e.message))
        ELSE McpError("InternalError",
                      "Error deleting memory: " \o OrElse(e.message, UnsupportedMessage)))

\* handleDeleteMemory with a fallback that throws on a response whose status
\* is not a success status.
FallbackReturnedCheckingStatus(branch, memoryId, o) ==
    IF o.ok /\ o.value # "404"
    THEN Returns(Success(DeletedMessage(memoryId)), <<>>, FALSE, {"info"})
    ELSE IF o.ok
    THEN Throws(DeleteError(branch, JsError("HTTP 404")), {"error"})
    ELSE Throws(DeleteError(branch, o.error), {"error"})

\* handleDeleteMemory after the awaited fallback (the HTTP status of a
\* resolved fetch is not looked at).
FallbackReturned(branch, memoryId, o) ==
    IF o.ok THEN Returns(Success(DeletedMessage(memoryId)), <<>>, FALSE, {"info"})
    ELSE Throws(DeleteError(branch, o.error), {"error"})

\* The catch of the detached write: the error is logged and goes no further.
AsyncWriteCatchRethrow(e) == "rethrown"

AsyncWriteCatch(e) == "logged"

\* The synchronous part of a SIGINT/SIGTERM handler: restore console.log and
\* start server.close(); process.exit(0) waits for close.
SignalHandlerNoAwait(cl) ==
    [consoleLog |-> Restore(cl), events |-> <<"signal", "restore", "close", "exit0">>,
     exits |-> TRUE]

SignalHandler(cl) ==
    [consoleLog |-> Restore(cl), events |-> <<"signal", "restore", "close">>, exits |-> FALSE]

\* ------------------------------------------------------------------ state
VARIABLES
    env,            \* process.env
    pc,             \* "boot" before the module body runs, "running", "exited"
    exitCode,       \* the status given to process.exit; -1 while the process lives
    isCloudMode,    \* Mem0MCPServer.isCloudMode
    cloudClient,    \* Mem0MCPServer.cloudClient (Undefined until constructed)
    localClient,    \* Mem0MCPServer.localClient (Undefined until constructed)
    isReady,        \* Mem0MCPServer.isReady
    importState,    \* the dynamic import('mem0ai'): "none", "pending", "ready", "initError"
    transport,      \* server.connect(transport): "none", "connecting", "connected", "closed"
    consoleLog,     \* console.log: "guarded" (SafeLogger's function) or "original"
    stdoutText,     \* console methods whose log text reached stdout under the guard
    inflight,       \* tool calls waiting for a backend call to return
    last,           \* the tool call whose handler finished most recently
    unanswered,     \* earlier calls whose handler has finished and whose
                    \* "return await" has not resumed yet
    pendingWrites,  \* detached add() calls not settled yet
    backendStarted, \* whether any backend call has been started
    trace           \* the signal, uncaughtException, restore, close, closed and exit
                    \* events, each at its first occurrence, in the order they happened

vars == <<env, pc, exitCode, isCloudMode, cloudClient, localClient, isReady, importState,
          transport, consoleLog, stdoutText, inflight, last, unanswered, pendingWrites,
          backendStarted, trace>>

Slots == 1..MaxInflight
\* A slot holds the request, the stage awaited ("search", "delPrimary",
\* "delFallback"), the backend calls started for it and those that threw.
Idle == [stage |-> "idle", req |-> NoRequest, calls |-> <<>>, threw |-> <<>>, opts |-> NoOptions]
\* No awaited backend call has settled.
NoOutcome == [ok |-> FALSE, value |-> Undefined, error |-> NoError]
\* A call whose handler has finished: the request, isReady when it arrived,
\* the response, the backend calls started for it and those of them that
\* threw before the response, the search options, whether a detached write was
\* started, how the awaited backend call that settled last did (for
\* add_memory: how its detached write did, if that settled before the answer;
\* NoOutcome if none), and whether the dispatcher has given the answer.
NoCall ==
    [req |-> NoRequest, ready |-> FALSE, resp |-> NoResponse, calls |-> <<>>,
     threw |-> <<>>, opts |-> NoOptions, write |-> FALSE, outcome |-> NoOutcome,
     answered |-> FALSE]

\* handleAddMemory, handleSearchMemory or handleDeleteMemory has returned or
\* thrown and the dispatcher's "return await" has not resumed yet: the
\* continuation is in the microtask queue.
Returning == last.req # NoRequest /\ ~last.answered

\* The detached write of the call in last is still running.
OwnWritePending == Returning /\ last.write /\ last.outcome = NoOutcome

\* const safeLogger = new SafeLogger() has run; the fields hold their
\* declared initial values.
Init ==
    /\ env \in Environments
    /\ pc = "boot"
    /\ exitCode = -1
    /\ isCloudMode = FALSE
    /\ cloudClient = Undefined
    /\ localClient = Undefined
    /\ isReady = FALSE
    /\ importState = "none"
    /\ transport = "none"
    /\ consoleLog = "guarded"
    /\ stdoutText = {}
    /\ inflight = [s \in Slots |-> Idle]
    /\ last = NoCall
    /\ unanswered = 0
    /\ pendingWrites = 0
    /\ backendStarted = FALSE
    /\ trace = <<>>

\* tr followed by those of events that are not in it yet.
RECURSIVE Record(_, _)
Record(tr, events) ==
    IF events = <<>> THEN tr
    ELSE IF \E i \in 1..Len(tr) : tr[i] = Head(events) THEN Record(tr, Tail(events))
    ELSE Record(Append(tr, Head(events)), Tail(events))

Happened(event) == \E i \in 1..Len(trace) : trace[i] = event

\* process.exit(code), after the given events.
Exit(code, events) ==
    /\ pc' = "exited"
    /\ exitCode' = code
    /\ trace' = Record(trace, events \o <<IF code = 0 THEN "exit0" ELSE "exit1">>)

\* The 'uncaughtException' listener: log, restore console.log, exit(1).
UncaughtExceptionHandler ==
    /\ consoleLog' = Restore(consoleLog)
    /\ Exit(1, <<"uncaughtException", "restore">>)

\* new Mem0MCPServer() followed by the synchronous part of server.start():
\* the mode decision, the local client's construction, the listeners, and
\* the call of server.connect.
Construct ==
    /\ pc = "boot"
    /\ stdoutText' = stdoutText \cup Leaked({"info"}, consoleLog)
    /\ LET mode == SelectMode(env.MEM0_API_KEY, env.OPENAI_API_KEY)
       IN  \/ /\ mode = "cloud"
              /\ isCloudMode' = TRUE
              /\ importState' = "pending"
              /\ transport' = "connecting"
              /\ pc' = "running"
              /\ UNCHANGED <<localClient, isReady, exitCode, trace>>
           \/ /\ mode = "local"
              /\ env.VECTOR_DB_PROVIDER = "qdrant" /\ ~Truthy(env.VECTOR_DB_URL)
              /\ Exit(1, <<>>)
              /\ UNCHANGED <<isCloudMode, importState, transport, localClient, isReady>>
           \/ /\ mode = "local"
              /\ ~(env.VECTOR_DB_PROVIDER = "qdrant" /\ ~Truthy(env.VECTOR_DB_URL))
              /\ \/ \E c \in LocalClients :
                       /\ localClient' = c
                       /\ isReady' = TRUE
                       /\ transport' = "connecting"
                       /\ pc' = "running"
                       /\ UNCHANGED <<exitCode, trace>>
                 \/ /\ Exit(1, <<>>)
                    /\ UNCHANGED <<localClient, isReady, transport>>
              /\ UNCHANGED <<isCloudMode, importState>>
           \/ /\ mode = "none"
              /\ Exit(1, <<>>)
              /\ UNCHANGED <<isCloudMode, importState, transport, localClient, isReady>>
    /\ UNCHANGED <<env, cloudClient, consoleLog, inflight, last, unanswered, pendingWrites,
                   backendStarted>>

\* The then-callback with this.isReady = true moved after the try/catch.
CloudImportResolvedReadyAfterCatch ==
    /\ pc = "running"
    /\ importState = "pending"
    /\ isReady' = TRUE
    /\ \/ /\ cloudClient' = "MemoryClient"
          /\ importState' = "ready"
          /\ stdoutText' = stdoutText \cup Leaked({"info"}, consoleLog)
       \/ /\ importState' = "initError"
          /\ stdoutText' = stdoutText \cup Leaked({"error"}, consoleLog)
          /\ UNCHANGED cloudClient
    /\ UNCHANGED <<env, pc, exitCode, isCloudMode, localClient, transport, consoleLog,
                   inflight, last, unanswered, pendingWrites, backendStarted, trace>>

\* import('mem0ai') resolves and the then-callback runs: the client is
\* constructed and the server becomes ready, or the constructor throws and
\* the error is logged.
CloudImportResolved ==
    /\ pc = "running"
    /\ importState = "pending"
    /\ \/ /\ cloudClient' = "MemoryClient"
          /\ isReady' = TRUE
          /\ importState' = "ready"
          /\ stdoutText' = stdoutText \cup Leaked({"info"}, consoleLog)
       \/ /\ importState' = "initError"
          /\ stdoutText' = stdoutText \cup Leaked({"error"}, consoleLog)
          /\ UNCHANGED <<cloudClient, isReady>>
    /\ UNCHANGED <<env, pc, exitCode, isCloudMode, localClient, transport, consoleLog,
                   inflight, last, unanswered, pendingWrites, backendStarted, trace>>

\* import('mem0ai') rejects: the catch-callback logs and exits.
CloudImportRejected ==
    /\ pc = "running"
    /\ importState = "pending"
    /\ importState' = "initError"
    /\ Exit(1, <<>>)
    /\ UNCHANGED <<env, isCloudMode, cloudClient, localClient, isReady, transport, consoleLog,
                   stdoutText, inflight, last, unanswered, pendingWrites, backendStarted>>

\* server.connect(transport) resolves: tool calls can arrive from now on.
ConnectResolved ==
    /\ pc = "running"
    /\ transport = "connecting"
    /\ transport' = "connected"
    /\ stdoutText' = stdoutText \cup Leaked({"info"}, consoleLog)
    /\ UNCHANGED <<env, pc, exitCode, isCloudMode, cloudClient, localClient, isReady,
                   importState, consoleLog, inflight, last, unanswered, pendingWrites,
                   backendStarted,
                   trace>>

\* server.connect(transport) rejects: start().catch logs, restores, exits.
ConnectRejected ==
    /\ pc = "running"
    /\ transport = "connecting"
    /\ consoleLog' = Restore(consoleLog)
    /\ Exit(1, <<"restore">>)
    /\ UNCHANGED <<env, isCloudMode, cloudClient, localClient, isReady, importState,
                   transport, stdoutText, inflight, last, unanswered, pendingWrites,
                   backendStarted>>

\* A call's handler has finished with record c: c becomes last. The call
\* that was in last, if its answer is still to come, is counted in unanswered.
Finished(c) ==
    /\ Returning => unanswered < MaxUnanswered
    /\ last' = c
    /\ unanswered' = IF Returning THEN unanswered + 1 ELSE unanswered

\* A tools/call request arrives, at any moment (also while earlier calls are
\* not answered yet), and the handler runs to its first await. A call refused
\* before the try block, or thrown out of it (unknown tool), is answered at
\* once; one given to handleAddMemory, handleSearchMemory or
\* handleDeleteMemory that returned or threw without awaiting is answered
\* when "return await" resumes (DispatcherResumed); one awaiting a backend
\* call takes a slot.
CallTool(req) ==
    /\ pc = "running"
    /\ transport = "connected"
    /\ LET r == CallToolHandler(isReady, isCloudMode, cloudClient, localClient, req)
       IN  /\ r.write => pendingWrites < MaxPendingWrites
           /\ pendingWrites' = IF r.write THEN pendingWrites + 1 ELSE pendingWrites
           /\ backendStarted' = (backendStarted \/ r.calls # <<>>)
           /\ stdoutText' = stdoutText \cup Leaked(r.logs, consoleLog)
           /\ IF r.stage = "done"
              THEN /\ Finished([req |-> req, ready |-> isReady, resp |-> ResponseOf(r),
                                calls |-> r.calls, threw |-> <<>>, opts |-> r.opts,
                                write |-> r.write, outcome |-> NoOutcome,
                                answered |-> Route(isReady, req.name) \in {"notReady", "unknown"}])
                   /\ UNCHANGED inflight
              ELSE /\ \E s \in Slots :
                        /\ inflight[s].stage = "idle"
                        /\ \A t \in Slots : t < s => inflight[t].stage # "idle"
                        /\ inflight' = [inflight EXCEPT ![s] =
                               [stage |-> r.stage, req |-> req, calls |-> r.calls, threw |-> <<>>,
                                opts |-> r.opts]]
                   /\ UNCHANGED <<last, unanswered>>
    /\ UNCHANGED <<env, pc, exitCode, isCloudMode, cloudClient, localClient, isReady,
                   importState, transport, consoleLog, trace>>

\* The dispatcher's "return await this.handle...(toolArgs)" resumes with what
\* the handler returned or threw, and the caller gets the answer. The
\* continuations run in the order in which the handlers finished: those of
\* earlier calls before that of the call in last.
DispatcherResumed ==
    /\ pc = "running"
    /\ IF unanswered > 0
       THEN /\ unanswered' = unanswered - 1
            /\ UNCHANGED last
       ELSE /\ Returning
            /\ last' = [last EXCEPT !.answered = TRUE]
            /\ UNCHANGED unanswered
    /\ UNCHANGED <<env, pc, exitCode, isCloudMode, cloudClient, localClient, isReady,
                   importState, transport, consoleLog, stdoutText, inflight, pendingWrites,
                   backendStarted, trace>>

\* The backend calls of slot s that threw, the one that settles with o included.
Thrown(s, o) ==
    IF o.ok THEN inflight[s].threw
    ELSE Append(inflight[s].threw, inflight[s].calls[Len(inflight[s].calls)])

\* The handler of an awaiting call resumes, its last backend call having
\* settled with o, and finishes with outcome r; the answer is given when the
\* dispatcher's "return await" resumes (DispatcherResumed).
Finish(s, r, o) ==
    /\ Finished([req |-> inflight[s].req, ready |-> TRUE, resp |-> ResponseOf(r),
                 calls |-> inflight[s].calls, threw |-> Thrown(s, o),
                 opts |-> inflight[s].opts, write |-> FALSE, outcome |-> o,
                 answered |-> FALSE])
    /\ inflight' = [inflight EXCEPT ![s] = Idle]
    /\ stdoutText' = stdoutText \cup Leaked(r.logs, consoleLog)

\* The awaited backend search of slot s returns or throws.
SearchSettled(s, o) ==
    /\ pc = "running"
    /\ inflight[s].stage = "search"
    /\ Finish(s, Caught(SearchReturned(o)), o)
    /\ UNCHANGED <<env, pc, exitCode, isCloudMode, cloudClient, localClient, isReady,
                   importState, transport, consoleLog, pendingWrites, backendStarted,
                   trace>>

\* The awaited primary delete (client.deleteMemory) of slot s returns or
\* throws: the call is answered, or its fallback is started.
PrimaryDeleteSettled(s, o) ==
    /\ pc = "running"
    /\ inflight[s].stage = "delPrimary"
    /\ LET branch == ClientBranch(isCloudMode, cloudClient, localClient)
           next == AfterPrimaryDelete(branch, localClient, o)
       IN  IF next = "success"
           THEN Finish(s, Returns(Success(DeletedMessage(inflight[s].req.a1)), <<>>, FALSE, {"info"}), o)
           ELSE IF next = "unsupported"
           THEN Finish(s, Caught(Throws(DeleteError(branch, JsError(UnsupportedMessage)),
                                        {"info", "error"})), o)
           ELSE /\ inflight' = [inflight EXCEPT ![s].stage = "delFallback",
                                                ![s].threw = Thrown(s, o),
                                                ![s].calls = Append(@, next)]
                /\ stdoutText' = stdoutText \cup Leaked({"info"}, consoleLog)
                /\ UNCHANGED <<last, unanswered>>
    /\ UNCHANGED <<env, pc, exitCode, isCloudMode, cloudClient, localClient, isReady,
                   importState, transport, consoleLog, pendingWrites, backendStarted,
                   trace>>

\* The awaited fallback delete of slot s (fetch in cloud mode,
\* _vectorstore.delete in local mode) returns or throws.
FallbackDeleteSettled(s, o) ==
    /\ pc = "running"
    /\ inflight[s].stage = "delFallback"
    /\ LET branch == ClientBranch(isCloudMode, cloudClient, localClient)
       IN  /\ o \in (IF branch = "cloud" THEN FetchOutcomes ELSE DeleteOutcomes)
           /\ Finish(s, Caught(FallbackReturned(branch, inflight[s].req.a1, o)), o)
    /\ UNCHANGED <<env, pc, exitCode, isCloudMode, cloudClient, localClient, isReady,
                   importState, transport, consoleLog, pendingWrites, backendStarted,
                   trace>>

\* A detached add() settles: its success is logged; its failure goes to the
\* catch of the detached function (an error leaving it would be an unhandled
\* rejection, which Node raises as an uncaught exception). This can happen
\* before the dispatcher answers the call that started the write (an add()
\* that throws at once, or whose promise settles in the same task), which
\* last.outcome then records, or at any later moment.
WriteSettled(o) ==
    /\ pc = "running"
    /\ pendingWrites > 0
    /\ pendingWrites' = pendingWrites - 1
    /\ \/ /\ OwnWritePending
          /\ last' = [last EXCEPT !.outcome = o]
       \/ /\ pendingWrites > (IF OwnWritePending THEN 1 ELSE 0)
          /\ UNCHANGED last
    /\ IF o.ok
       THEN /\ stdoutText' = stdoutText \cup Leaked({"info"}, consoleLog)
            /\ UNCHANGED <<pc, exitCode, consoleLog, trace>>
       ELSE IF AsyncWriteCatch(o.error) = "logged"
       THEN /\ stdoutText' = stdoutText \cup Leaked({"error"}, consoleLog)
            /\ UNCHANGED <<pc, exitCode, consoleLog, trace>>
       ELSE /\ UncaughtExceptionHandler
            /\ UNCHANGED stdoutText
    /\ UNCHANGED <<env, isCloudMode, cloudClient, localClient, isReady, importState,
                   transport, inflight, unanswered, backendStarted>>

\* The backend library (or anything else in the process) calls console.log,
\* from a stack the guard's test recognises or not.
LibraryLog(stackHit) ==
    /\ pc = "running"
    /\ stdoutText' = stdoutText \cup
           (IF consoleLog = "guarded" /\ ConsoleChannel("log", stackHit, consoleLog) = "stdout"
            THEN {"console.log"} ELSE {})
    /\ UNCHANGED <<env, pc, exitCode, isCloudMode, cloudClient, localClient, isReady,
                   importState, transport, consoleLog, inflight, last, unanswered, pendingWrites,
                   backendStarted, trace>>

\* SIGINT or SIGTERM: the listener logs, restores console.log and calls
\* server.close(), which detaches the transport.
Signal ==
    /\ pc = "running"
    /\ stdoutText' = stdoutText \cup Leaked({"info"}, consoleLog)
    /\ LET h == SignalHandler(consoleLog)
       IN  /\ consoleLog' = h.consoleLog
           /\ IF h.exits
              THEN /\ pc' = "exited"
                   /\ exitCode' = 0
              ELSE UNCHANGED <<pc, exitCode>>
           /\ trace' = Record(trace, h.events)
    /\ transport' = "closed"
    /\ UNCHANGED <<env, isCloudMode, cloudClient, localClient, isReady, importState,
                   inflight, last, unanswered, pendingWrites, backendStarted>>

\* server.close() of a signal listener resolves: the listener exits with 0.
CloseResolved ==
    /\ pc = "running"
    /\ Happened("close")
    /\ Exit(0, <<"closed">>)
    /\ UNCHANGED <<env, isCloudMode, cloudClient, localClient, isReady, importState,
                   transport, consoleLog, stdoutText, inflight, last, unanswered, pendingWrites,
                   backendStarted>>

\* server.close() rejects: the async listener's rejection is unhandled, which
\* Node raises as an uncaught exception.
CloseRejected ==
    /\ pc = "running"
    /\ Happened("close")
    /\ UncaughtExceptionHandler
    /\ UNCHANGED <<env, isCloudMode, cloudClient, localClient, isReady, importState,
                   transport, stdoutText, inflight, last, unanswered, pendingWrites,
                   backendStarted>>

\* An exception nobody catches is thrown somewhere in the process.
UncaughtException ==
    /\ pc = "running"
    /\ UncaughtExceptionHandler
    /\ UNCHANGED <<env, isCloudMode, cloudClient, localClient, isReady, importState,
                   transport, stdoutText, inflight, last, unanswered, pendingWrites,
                   backendStarted>>

Next ==
    \/ Construct
    \/ CloudImportResolved
    \/ CloudImportRejected
    \/ ConnectResolved
    \/ ConnectRejected
    \/ \E req \in Requests : CallTool(req)
    \/ DispatcherResumed
    \/ \E s \in Slots, o \in SearchOutcomes : SearchSettled(s, o)
    \/ \E s \in Slots, o \in DeleteOutcomes : PrimaryDeleteSettled(s, o)
    \/ \E s \in Slots, o \in FetchOutcomes \cup DeleteOutcomes : FallbackDeleteSettled(s, o)
    \/ \E o \in DeleteOutcomes : WriteSettled(o)
    \/ \E stackHit \in BOOLEAN : LibraryLog(stackHit)
    \/ Signal
    \/ CloseResolved
    \/ CloseRejected
    \/ UncaughtException

Spec == Init /\ [][Next]_vars

\* ------------------------------------------------------------- properties
KnownTools == {"add_memory", "search_memory", "delete_memory"}
Handled == last.req # NoRequest
Answered == Handled /\ last.answered
Absent(v) == v \in {Undefined, ""}
BothGiven(req) == ~Absent(req.a1) /\ ~Absent(req.userId)
NothingInFlight == \A s \in Slots : inflight[s].stage = "idle"

\* C1: a tool call that arrives while the server is not ready, whatever its
\* name and arguments, is answered with the InternalError "still
\* initializing", starts no backend call and no detached write, and is not
\* kept for later: as long as the server is not ready no backend call has
\* been started, no write is pending and no call is waiting.
C1_NotReadyRejected ==
    /\ (Handled /\ ~last.ready) =>
          /\ last.resp = [ok |-> FALSE, code |-> "InternalError",
                          text |-> "Memory client is still initializing. Please try again in a moment."]
          /\ last.calls = <<>>
          /\ ~last.write
    /\ ~isReady => (~backendStarted /\ pendingWrites = 0 /\ NothingInFlight)

\* A valid add_memory call was rejected because the server was not ready yet.
C1_Witness ==
    /\ Answered /\ ~last.ready
    /\ last.req.name = "add_memory" /\ BothGiven(last.req)
    /\ last.resp.code = "InternalError"
    /\ pc = "running" /\ ~isReady

\* C2: on a ready server, a call of one of the three tools with a required
\* argument missing or empty is answered with InvalidParams and starts no
\* backend call and no detached write; no such call ever waits for a backend.
C2_MissingFieldInvalidParams ==
    /\ (Handled /\ last.ready /\ last.req.name \in KnownTools /\ ~BothGiven(last.req)) =>
          /\ ~last.resp.ok
          /\ last.resp.code = "InvalidParams"
          /\ last.calls = <<>>
          /\ ~last.write
    /\ \A s \in Slots : inflight[s].stage # "idle" => BothGiven(inflight[s].req)

\* add_memory with an empty userId was rejected on a ready server.
C2_Witness ==
    /\ Answered /\ last.ready
    /\ last.req.name = "add_memory" /\ last.req.a1 = "m1" /\ last.req.userId = ""
    /\ last.resp.code = "InvalidParams"

\* C3: on a ready server handleAddMemory, called with content and userId,
\* starts the detached write and returns exactly "Memory addition queued
\* successfully" in one step, the write still pending; the dispatcher can give
\* the answers that are due whether the write is still running, has succeeded
\* or has failed, and gives this one unchanged; and the step in which a
\* detached write settles (with success or failure) changes neither the
\* answer, nor whether it has been given, nor isReady, nor the process's
\* being alive.
C3_AddQueuedFireAndForget ==
    [][ /\ (last'.ready /\ last'.req.name = "add_memory" /\ BothGiven(last'.req)) =>
              /\ last'.resp = [ok |-> TRUE, code |-> Undefined,
                               text |-> "Memory addition queued successfully"]
              /\ last'.calls = <<"add">>
              /\ last'.write
        /\ pendingWrites' > pendingWrites =>
              /\ last'.req.name = "add_memory"
              /\ last'.resp.ok
              /\ ~last'.answered
              /\ last'.outcome = NoOutcome
        /\ ((Returning \/ unanswered > 0) /\ pc = "running") => ENABLED DispatcherResumed
        /\ (Returning /\ last'.answered /\ unanswered' = unanswered) =>
              /\ last' = [last EXCEPT !.answered = TRUE]
              /\ pendingWrites' = pendingWrites
        /\ pendingWrites' < pendingWrites =>
              /\ last'.req = last.req
              /\ last'.resp = last.resp
              /\ last'.answered = last.answered
              /\ unanswered' = unanswered
              /\ isReady' = isReady
              /\ pc' = pc
              /\ exitCode' = exitCode
      ]_vars

\* An add_memory call was answered "queued" although its detached write had
\* failed before the answer was given, and the process is still running and
\* ready.
C3_Witness ==
    /\ Answered /\ last.req.name = "add_memory" /\ last.write
    /\ last.resp.text = "Memory addition queued successfully"
    /\ last.outcome # NoOutcome /\ ~last.outcome.ok
    /\ pendingWrites = 0
    /\ pc = "running" /\ isReady

ValidDelete(c) == c.ready /\ c.req.name = "delete_memory" /\ BothGiven(c.req)
Fallbacks == {"fetch", "_vectorstore.delete"}
Contains(seq, x) == \E i \in 1..Len(seq) : seq[i] = x
FallbackCalls(c) == Cardinality({i \in 1..Len(c.calls) : c.calls[i] \in Fallbacks})
PrimaryThrew(c) == Contains(c.threw, "deleteMemory")
FallbackThrew(c) == \E f \in Fallbacks : Contains(c.threw, f)

\* C4: for every delete_memory call that passed validation, in both modes,
\* the primary delete is the first backend call, the fallback is called
\* exactly once if the primary threw and never otherwise, and when both
\* failed the answer is an InternalError with a message, not a success. (A
\* local client without a _vectorstore.delete function gets no fallback call
\* after its primary delete threw.)
C4_AsClaimed ==
    (Handled /\ ValidDelete(last)) =>
        /\ last.calls # <<>> /\ last.calls[1] = "deleteMemory"
        /\ FallbackCalls(last) = (IF PrimaryThrew(last) THEN 1 ELSE 0)
        /\ (PrimaryThrew(last) /\ FallbackThrew(last)) =>
              (~last.resp.ok /\ last.resp.code = "InternalError" /\ last.resp.text # Undefined)

IsSet(v) == v \notin {Undefined, ""}

\* C5: once the constructor has run, the mode is a function of the keys: with
\* MEM0_API_KEY set the mode is Cloud (whatever OPENAI_API_KEY is) and no
\* local client exists; with only OPENAI_API_KEY set the local path was taken
\* (no cloud import, no cloud client, and the local client exists or the
\* process has exited with 1); with neither set the process has exited with
\* status 1, was never ready, never connected the transport and answered no
\* call.
C5_ModeSelection ==
    pc # "boot" =>
        /\ IsSet(env.MEM0_API_KEY) =>
              /\ isCloudMode
              /\ importState # "none"
              /\ localClient = Undefined
        /\ (~IsSet(env.MEM0_API_KEY) /\ IsSet(env.OPENAI_API_KEY)) =>
              /\ ~isCloudMode
              /\ importState = "none"
              /\ cloudClient = Undefined
              /\ localClient # Undefined \/ (pc = "exited" /\ exitCode = 1)
        /\ (~IsSet(env.MEM0_API_KEY) /\ ~IsSet(env.OPENAI_API_KEY)) =>
              /\ pc = "exited" /\ exitCode = 1
              /\ ~isReady
              /\ transport = "none"
              /\ ~Handled /\ ~backendStarted

\* Both keys set: the server runs in Cloud mode and has become ready.
C5_Witness ==
    /\ IsSet(env.MEM0_API_KEY) /\ IsSet(env.OPENAI_API_KEY)
    /\ isCloudMode /\ isReady /\ pc = "running"
    /\ cloudClient # Undefined

\* The selected backend failed to initialize: in Cloud mode the import was
\* rejected or the client's constructor threw; in Local mode the constructor
\* ended without a local client.
InitializationFailed ==
    /\ pc # "boot"
    /\ SelectMode(env.MEM0_API_KEY, env.OPENAI_API_KEY) # "none"
    /\ IF isCloudMode THEN importState = "initError" ELSE localClient = Undefined

\* C6 as claimed: whenever the selected backend has failed to initialize, the
\* process has exited with a non-zero status.
C6_AsClaimed == InitializationFailed => (pc = "exited" /\ exitCode # 0 /\ exitCode # -1)

SearchReachedBackend(c) == Contains(c.calls, "search")
Omitted(threshold) == threshold.t \in {"undefined", "null"}
ExpectedThreshold(threshold) ==
    IF Omitted(threshold) THEN [t |-> "number", v |-> 3] ELSE threshold

\* C7: every backend search, waiting or answered, in Cloud and in Local mode,
\* was given options whose threshold is 0.3 (3 tenths) if the request's
\* threshold was undefined or null, and the request's threshold otherwise,
\* the value 0 included.
C7_ThresholdDefault ==
    /\ (Handled /\ SearchReachedBackend(last)) =>
          last.opts.threshold = ExpectedThreshold(last.req.threshold)
    /\ \A s \in Slots : inflight[s].stage = "search" =>
          inflight[s].opts.threshold = ExpectedThreshold(inflight[s].req.threshold)

\* A search with threshold 0 reached the backend with threshold 0.
C7_Witness ==
    /\ Answered /\ SearchReachedBackend(last)
    /\ last.req.threshold = [t |-> "number", v |-> 0]
    /\ last.opts.threshold = [t |-> "number", v |-> 0]

Position(event) ==
    IF Happened(event) THEN CHOOSE i \in 1..Len(trace) : trace[i] = event ELSE 0
Before(a, b) == Happened(a) /\ Happened(b) /\ Position(a) < Position(b)

\* C8: once a shutdown signal has been handled, console.log has been restored
\* and then server.close() called; the process exits with status 0 only after
\* a signal, and then restore, close, the completion of close and the exit
\* happened in this order; once the uncaught-exception handler has run,
\* console.log has been restored and then the process has exited with 1.
C8_ShutdownOrder ==
    /\ Happened("signal") =>
          /\ Before("signal", "restore")
          /\ Before("restore", "close")
          /\ consoleLog = "original"
          /\ transport = "closed"
    /\ (exitCode = 0 \/ Happened("exit0")) =>
          /\ pc = "exited" /\ exitCode = 0
          /\ Happened("signal")
          /\ Before("restore", "close")
          /\ Before("close", "closed")
          /\ Before("closed", "exit0")
    /\ Happened("closed") => Before("close", "closed")
    /\ Happened("uncaughtException") =>
          /\ pc = "exited" /\ exitCode = 1
          /\ consoleLog = "original"
          /\ Before("restore", "exit1")

\* The process has exited with status 0 after a signal.
C8_Witness ==
    /\ pc = "exited" /\ exitCode = 0
    /\ trace = <<"signal", "restore", "close", "closed", "exit0">>

\* C9 as claimed: no log text of the program or of the backend library has
\* been written to stdout while the guard was installed.
C9_AsClaimed == stdoutText = {}

\* C10: on a ready server a call whose tool name is none of the three tools
\* is answered with MethodNotFound (not InternalError), whatever its
\* arguments, and starts no backend call; no such call ever waits for a
\* backend.
C10_UnknownToolMethodNotFound ==
    /\ (Handled /\ last.ready /\ last.req.name \notin KnownTools) =>
          /\ last.resp = [ok |-> FALSE, code |-> "MethodNotFound",
                          text |-> "Unknown tool: " \o last.req.name]
          /\ last.calls = <<>>
          /\ ~last.write
    /\ \A s \in Slots : inflight[s].stage # "idle" => inflight[s].req.name \in KnownTools

\* An unknown tool called with both arguments on a ready server was answered
\* with MethodNotFound.
C10_Witness ==
    /\ Answered /\ last.ready
    /\ last.req.name = "list_memories" /\ BothGiven(last.req)
    /\ last.resp.code = "MethodNotFound"

\* C11: after the constructor's mode decision isCloudMode never changes; a
\* client, once set, is never replaced or cleared, and cloudClient and
\* localClient are never both set; the server is ready only if the client of
\* the selected mode exists; a ready server stays ready; and no call that
\* arrived on a ready server is answered "No memory client is available".
C11_ModeAndReadiness ==
    [][ /\ pc # "boot" => isCloudMode' = isCloudMode
        /\ cloudClient # Undefined => cloudClient' = cloudClient
        /\ localClient # Undefined => localClient' = localClient
        /\ cloudClient' = Undefined \/ localClient' = Undefined
        /\ isReady' =>
              (IF isCloudMode' THEN cloudClient' # Undefined ELSE localClient' # Undefined)
        /\ isReady => isReady'
        /\ last'.ready => last'.resp.text # "No memory client is available"
      ]_vars

\* A Local-mode server, ready with its local client and no cloud client, has
\* answered a search through that client.
C11_Witness ==
    /\ isReady /\ ~isCloudMode
    /\ localClient # Undefined /\ cloudClient = Undefined
    /\ Answered /\ last.ready /\ last.req.name = "search_memory" /\ last.resp.ok

ValidSearch(c) == c.ready /\ c.req.name = "search_memory" /\ BothGiven(c.req)

\* C12: a search_memory call that passed validation starts exactly one
\* backend search and nothing else; the step that starts it finishes no
\* handler and answers nobody; its handler finishes only in a step in which
\* that search settles (the waiting call leaves its slot), and the answer,
\* given after that, is the one the handler finished with; if the search
\* returned the answer is a
\* success, and if it threw the answer is the InternalError "Error searching
\* memories: <the thrown value's message>" (the message of new Error() is
\* empty, that of a value that is not an Error prints as "undefined"; a
\* thrown null, which has no message to read, gives the InternalError "Error
\* executing tool: ..." of the dispatcher), never a success, with no second
\* backend call.
C12_SearchSynchronous ==
    [][ /\ ValidSearch(last') =>
              /\ last'.calls = <<"search">>
              /\ ~last'.write
              /\ last'.threw = (IF last'.outcome.ok THEN <<>> ELSE <<"search">>)
              /\ last'.outcome # NoOutcome
              /\ last'.outcome.ok => last'.resp.ok
              /\ ~last'.outcome.ok =>
                    last'.resp =
                        [ok |-> FALSE, code |-> "InternalError",
                         text |->
                             IF last'.outcome.error.code = "null"
                             THEN "Error executing tool: Cannot read properties of null (reading 'message')"
                             ELSE "Error searching memories: " \o
                                  (IF last'.outcome.error.message = Undefined THEN "undefined"
                                   ELSE last'.outcome.error.message)]
        /\ \A s \in Slots :
              /\ inflight'[s].stage = "search" =>
                    (inflight'[s].calls = <<"search">> /\ inflight'[s].threw = <<>>)
              /\ (inflight[s].stage # "search" /\ inflight'[s].stage = "search") => last' = last
        /\ (last' # last /\ ValidSearch(last')) =>
              \/ /\ last' = [last EXCEPT !.answered = TRUE]
                 /\ inflight' = inflight
              \/ /\ ~last'.answered
                 /\ \E s \in Slots :
                       /\ inflight[s].stage = "search"
                       /\ inflight[s].req = last'.req
                       /\ inflight'[s].stage = "idle"
      ]_vars

\* A search whose backend call threw an Error with a message was answered with
\* an InternalError carrying that message, after exactly one backend call.
C12_Witness ==
    /\ Answered /\ ValidSearch(last)
    /\ last.calls = <<"search">> /\ last.threw = <<"search">>
    /\ last.outcome.error.message = "backend failure"
    /\ last.resp.code = "InternalError"
    /\ last.resp.text = "Error searching memories: backend failure"

CloudFallbackAnswered ==
    /\ Answered /\ ValidDelete(last) /\ isCloudMode
    /\ PrimaryThrew(last)

\* C13: in Cloud mode, a delete whose primary call threw has made the fetch
\* fallback, and its answer is decided by that request's promise alone: if
\* it resolved, with status 200 or 404 alike, the answer is "Memory <id>
\* deleted successfully"; if it rejected, the answer is the InternalError
\* "Error deleting memory: <the rejection's message>" (for a rejection with
\* null, which has no message to read, the InternalError "Error executing
\* tool: ..." of the dispatcher).
C13_CloudFallbackIgnoresStatus ==
    (Handled /\ ValidDelete(last) /\ isCloudMode /\ PrimaryThrew(last)) =>
        /\ last.calls = <<"deleteMemory", "fetch">>
        /\ last.outcome # NoOutcome
        /\ last.outcome.ok =>
              /\ last.outcome.value \in {"200", "404"}
              /\ last.resp = [ok |-> TRUE, code |-> Undefined,
                              text |-> "Memory " \o last.req.a1 \o " deleted successfully"]
        /\ ~last.outcome.ok =>
              last.resp =
                  [ok |-> FALSE, code |-> "InternalError",
                   text |->
                       IF last.outcome.error.code = "null"
                       THEN "Error executing tool: Cannot read properties of null (reading 'message')"
                       ELSE "Error deleting memory: " \o
                            (IF last.outcome.error.message = Undefined THEN "undefined"
                             ELSE last.outcome.error.message)]

\* The fallback request resolved with status 404 and the caller was told the
\* memory was deleted.
C13_Witness ==
    /\ CloudFallbackAnswered
    /\ last.outcome.ok /\ last.outcome.value = "404"
    /\ last.resp.ok
    /\ last.resp.text = "Memory m1 deleted successfully"

====
